---- MODULE Spec2Model ----
(***************************************************************************)
(* Model of the account store's lifecycle manager (Init/Close of auth.db,  *)
(* the login-attempt writer and cleaner goroutines) and of the NATS        *)
(* archival client (InitNATS, StoreMessage, StoreMessageWithQueue,         *)
(* StoreMessageAsync, processPendingNATSLoop).                             *)
(*                                                                         *)
(* The specifications share the variables:                                 *)
(*   Spec       the lifecycle manager, the retry loop and calls on an      *)
(*              absent client;                                             *)
(*   SpecOnce   concurrent InitNATS callers;                               *)
(*   SpecClose  the shutdown of an initialized manager beside the retry    *)
(*              loop (FairClose: the same with the workers scheduled;      *)
(*              FairShutdown: with Close scheduled as well);               *)
(*   SpecStore  the archival pipeline on a client fixed at start           *)
(*              (FairStore: the same with the goroutines scheduled);       *)
(*   SpecAsync  StoreMessageAsync with callers that change their file;     *)
(*   SpecSpool  the retry loop beside another remover of queue files;      *)
(*   SpecScan   the retry loop over a directory with other entries.        *)
(***************************************************************************)
EXTENDS Integers, Sequences, FiniteSets, TLC

(* ------------------------------ bounds -------------------------------- *)

\* Number of Init calls that get as far as starting the workers.
MaxInits == 2

\* Number of goroutines calling InitNATS directly (besides store.Init).
MaxNatsCallers == 2

\* Message identifiers handed to the store calls: 1..MaxMsg.
MaxMsg == 2

\* Number of store calls started on a constructed client.
MaxCalls == 2

\* The clock (time.Now) runs from 0 to MaxTime.
MaxTime == 1

\* Length in bytes of every message payload.
PayloadLen == 1

\* Number of goroutines that run store calls at the same time.
MaxWorkers == 2

\* Number of values rand.Intn(10000) is cut down to.
MaxSalts == 2

(* ----------------------------- constants ------------------------------ *)

Nil == "nil"
Client == "client"
None == <<>>

\* AccountRemove records that may be pending, in the order List returns them.
AccountOrder == <<"a", "b">>
Accounts == {AccountOrder[i] : i \in 1..Len(AccountOrder)}

\* Goroutines that call InitNATS: 0 is store.Init, the others call it directly.
OwnerProc == 0
NatsProcs == 0..MaxNatsCallers
Instances == 1..MaxInits

\* Goroutines running a store call: a delivery calling StoreMessage or
\* StoreMessageWithQueue, or the goroutine detached by StoreMessageAsync.
Workers == 1..MaxWorkers
FirstWorker == CHOOSE w \in Workers : \A v \in Workers : w <= v
\* Holder of nc.mu: a worker, the retry loop, or nobody.
LoopProc == 0
Free == -1

MsgIds == 1..MaxMsg
\* rand.Intn(10000)
Salts == 0..(MaxSalts - 1)

VARIABLES
    \* store package state (part_000)
    AuthDB,             \* "nil" or "open": the *bstore.DB handle
    dbHandles,          \* number of bstore handles opened and not closed
    removals,           \* AccountRemove records in auth.db
    opc,                \* position of the goroutine calling Init/Close
    initList,           \* removals still to process in the running Init
    initResult,         \* what the last Init call returned
    closeResult,        \* what the last Close call returned
    writerPc,           \* login-attempt writer goroutines
    cleanerPc,          \* login-attempt cleaner goroutines
    spawned,            \* number of writer/cleaner pairs started so far
    ctxDone,            \* the context passed to Init is cancelled
    panics,             \* metrics.PanicInc(metrics.Store)
    natsConfigured,     \* mox.Conf.Static.NATS # nil
    \* history of the running/last Init and Close
    initListed, initTried, initFailed, closeLog, dbFault,
    \* NATS client singleton (part_001)
    natsOnce,           \* sync.Once: "new", "running", "done"
    natsPc,             \* position of each InitNATS caller
    natsRes,            \* what each caller's last InitNATS returned
    natsCfg,            \* the cfg of each caller's last InitNATS: "nil", "cfg" ("none": no call)
    globalNATSClient,   \* "nil" or "client"
    connClosed,         \* nc.conn.Close() was called
    connAttempts,       \* number of newNATSClient calls
    \* environment
    remoteUp,           \* the NATS server is reachable
    stable,             \* the server stays reachable and every Put succeeds
    now,                \* time.Now()
    diskFaulty,         \* file operations on this disk may fail (full, permissions)
    deleteAfterStore,   \* config.NATS.DeleteAfterStore
    \* the client and the spool (part_001)
    mu,                 \* holder of nc.mu
    spool,              \* store/tmp/nats-pending: name -> [size, owner, dir]
    remote,             \* the object store bucket: object name -> size
    unlinked,           \* queue files removed by someone else than the loop: name -> size
    \* store calls
    wpc, wkind, wmsg, wobj, wname, wwritten, wput, wres, wdel,
    wsrc,               \* per store call: bytes in the caller's file, bytes read by os.ReadFile
    calls,
    \* processPendingNATSLoop
    lpc, lfiles, lcur, lobj,
    files,              \* the listing of the pass that is under way (os.ReadDir)
    lfail               \* since the last os.ReadDir the client check or a Put has failed

lifeVars == <<AuthDB, dbHandles, removals, opc, initList, initResult, closeResult,
              writerPc, cleanerPc, spawned, ctxDone, panics, natsConfigured>>
histVars == <<initListed, initTried, initFailed, closeLog, dbFault>>
natsVars == <<natsOnce, natsPc, natsRes, natsCfg, globalNATSClient, connClosed,
              connAttempts>>
envVars == <<remoteUp, stable, now, diskFaulty, deleteAfterStore>>
workVars == <<wpc, wkind, wmsg, wobj, wname, wwritten, wput, wres, wdel, wsrc, calls>>
loopVars == <<lpc, lfiles, lcur, lobj, files, lfail>>
fsVars == <<spool, remote, unlinked>>
vars == <<lifeVars, histVars, natsVars, envVars, workVars, loopVars, fsVars, mu>>

(* ------------------------- InitNATS (part_001) ------------------------ *)

\* newNATSClient: connects and resolves the bucket. It fails when the server
\* is unreachable, and may fail on the bucket lookup or creation even when it is.
NewClientOutcomes == IF remoteUp THEN {"ok", "bucket error"} ELSE {"connect error"}

\* A Once that forgets it is done: f runs whenever no other call is running it.
OnceDoRunsAgain == natsOnce # "running"

\* natsOnce.Do(f) calls f: no call of Do on natsOnce has been made before.
OnceDoRuns == natsOnce = "new"

\* An InitNATS that goes on to natsOnce.Do without a configuration.
ConfigAssumed(cfg) == FALSE

\* InitNATS's first test: cfg == nil
NotConfigured(cfg) == ~cfg

\* InitNATS up to natsOnce.Do: a nil config returns at once; otherwise the first
\* caller runs the construction, a caller arriving while it runs waits for it,
\* and a later caller returns initErr = nil without constructing.
InitNATSEnter(p, cfg) ==
    /\ natsPc[p] = "idle"
    /\ natsCfg' = [natsCfg EXCEPT ![p] = IF cfg THEN "cfg" ELSE "nil"]
    /\ IF NotConfigured(cfg)
       THEN /\ natsRes' = [natsRes EXCEPT ![p] = "nil"]
            /\ UNCHANGED <<natsOnce, natsPc>>
       ELSE CASE OnceDoRuns ->
                    /\ natsOnce' = "running"
                    /\ natsPc' = [natsPc EXCEPT ![p] = "run"]
                    /\ UNCHANGED natsRes
              [] natsOnce = "running" ->
                    /\ natsPc' = [natsPc EXCEPT ![p] = "wait"]
                    /\ UNCHANGED <<natsOnce, natsRes>>
              [] OTHER ->
                    /\ natsRes' = [natsRes EXCEPT ![p] = "nil"]
                    /\ UNCHANGED <<natsOnce, natsPc>>
    /\ UNCHANGED <<globalNATSClient, connClosed, connAttempts>>

\* The function passed to natsOnce.Do: globalNATSClient, initErr = newNATSClient(...)
InitNATSConstruct(p) ==
    /\ natsPc[p] = "run"
    /\ \E out \in NewClientOutcomes :
         /\ globalNATSClient' = IF out = "ok" THEN Client ELSE Nil
         /\ natsRes' = [natsRes EXCEPT ![p] = IF out = "ok" THEN "nil" ELSE out]
    /\ connAttempts' = connAttempts + 1
    /\ natsOnce' = "done"
    /\ natsPc' = [natsPc EXCEPT ![p] = "idle"]
    /\ UNCHANGED <<connClosed, natsCfg>>

\* A caller blocked in natsOnce.Do returns once the running construction is over;
\* its own initErr was never assigned.
InitNATSWake(p) ==
    /\ natsPc[p] = "wait"
    /\ natsOnce = "done"
    /\ natsPc' = [natsPc EXCEPT ![p] = "idle"]
    /\ natsRes' = [natsRes EXCEPT ![p] = "nil"]
    /\ UNCHANGED <<natsOnce, natsCfg, globalNATSClient, connClosed, connAttempts>>

(* ---------------------- store.Init (part_000) ------------------------- *)

\* An Init without its guard.
NeverInitialized == FALSE

\* Init's guard: auth.db is already open.
AlreadyInitialized == AuthDB # Nil

\* bstore.QueryDB[AccountRemove](ctx, AuthDB).List(): the records in key order.
ListRemovals == SelectSeq(AccountOrder, LAMBDA a : a \in removals)

\* Init up to the listing of the pending removals: the guard, bstore.Open and List.
\* A failed Open leaves AuthDB nil; a failed List returns with AuthDB set.
InitCall ==
    /\ opc = "idle"
    /\ IF AlreadyInitialized
       THEN /\ initResult' = "already initialized"
            /\ UNCHANGED <<AuthDB, dbHandles, opc, initList, initListed, initTried, initFailed>>
       ELSE /\ spawned < MaxInits
            /\ \E out \in {"ok", "open error", "list error"} :
                 /\ AuthDB' = IF out = "open error" THEN Nil ELSE "open"
                 /\ dbHandles' = IF out = "open error" THEN dbHandles ELSE dbHandles + 1
                 /\ initResult' = IF out = "ok" THEN "running" ELSE out
                 /\ opc' = IF out = "ok" THEN "init_rm" ELSE "idle"
                 /\ initList' = IF out = "ok" THEN ListRemovals ELSE <<>>
                 /\ initListed' = IF out = "ok" THEN removals ELSE {}
            /\ initTried' = {}
            /\ initFailed' = {}
    /\ UNCHANGED <<removals, closeResult, writerPc, cleanerPc, spawned, ctxDone, panics,
                   natsConfigured, closeLog, dbFault>>
    /\ UNCHANGED <<natsVars, envVars, workVars, loopVars, fsVars, mu>>

\* A loop over the removals that stops at the first failure.
StopAfterFailedRemoval(rest) == <<>>

\* What the loop over the removals does after removeAccount failed on one of them:
\* it logs the error and goes on with the next.
AfterFailedRemoval(rest) == rest

\* removeAccount(log, name): it removes the account and its AccountRemove record
\* in one transaction, or fails and leaves the record for the next startup.
RemoveAccount(a, ok) == IF ok THEN removals \ {a} ELSE removals

\* One turn of the loop over the removals.
InitRemove ==
    /\ opc = "init_rm"
    /\ initList # <<>>
    /\ LET a == Head(initList) IN
       \E ok \in BOOLEAN :
         /\ removals' = RemoveAccount(a, ok)
         /\ initFailed' = IF ok THEN initFailed ELSE initFailed \cup {a}
         /\ initTried' = initTried \cup {a}
         /\ initList' = IF ok THEN Tail(initList) ELSE AfterFailedRemoval(Tail(initList))
    /\ UNCHANGED <<AuthDB, dbHandles, opc, initResult, closeResult, writerPc, cleanerPc,
                   spawned, ctxDone, panics, natsConfigured, initListed, closeLog, dbFault>>
    /\ UNCHANGED <<natsVars, envVars, workVars, loopVars, fsVars, mu>>

\* startLoginAttemptWriter(), make(chan chan struct{}) and the go statement that
\* starts the cleaner, which first runs LoginAttemptCleanup.
InitStartWorkers ==
    /\ opc = "init_rm"
    /\ initList = <<>>
    /\ spawned' = spawned + 1
    /\ writerPc' = [writerPc EXCEPT ![spawned + 1] = "select"]
    /\ cleanerPc' = [cleanerPc EXCEPT ![spawned + 1] = "cleanup"]
    /\ opc' = "init_nats"
    /\ UNCHANGED <<AuthDB, dbHandles, removals, initList, initResult, closeResult, ctxDone,
                   panics, natsConfigured>>
    /\ UNCHANGED <<histVars, natsVars, envVars, workVars, loopVars, fsVars, mu>>

\* An Init that returns the error of InitNATS.
InitFailsOnNATSError(err) == IF err = "nil" THEN "ok" ELSE err

\* What Init returns after InitNATS, whatever InitNATS returned: the error is logged.
InitReturnAfterNATS(err) == "ok"

\* InitNATS(pkglog, mox.Conf.Static.NATS), and the return when it did not construct.
InitNATSStep ==
    /\ opc = "init_nats"
    /\ InitNATSEnter(OwnerProc, natsConfigured)
    /\ IF natsPc'[OwnerProc] = "idle"
       THEN /\ opc' = "idle"
            /\ initResult' = InitReturnAfterNATS(natsRes'[OwnerProc])
       ELSE /\ opc' = "init_nats_in"
            /\ UNCHANGED initResult
    /\ UNCHANGED <<AuthDB, dbHandles, removals, initList, closeResult, writerPc, cleanerPc,
                   spawned, ctxDone, panics, natsConfigured>>
    /\ UNCHANGED <<histVars, envVars, workVars, loopVars, fsVars, mu>>

\* The construction inside natsOnce.Do, and Init's return.
InitNATSDone ==
    /\ opc = "init_nats_in"
    /\ InitNATSConstruct(OwnerProc)
    /\ opc' = "idle"
    /\ initResult' = InitReturnAfterNATS(natsRes'[OwnerProc])
    /\ UNCHANGED <<AuthDB, dbHandles, removals, initList, closeResult, writerPc, cleanerPc,
                   spawned, ctxDone, panics, natsConfigured>>
    /\ UNCHANGED <<histVars, envVars, workVars, loopVars, fsVars, mu>>

(* ---------------- the cleaner goroutine (part_000) -------------------- *)

\* A goroutine that runs and may read or write auth.db.
CleanerRunning(i) == cleanerPc[i] \in {"cleanup", "select", "ack"}
WriterRunning(i) == writerPc[i] \in {"select", "flush", "ack"}

\* LoginAttemptCleanup(ctx) and pkglog.Check: it succeeds or fails (logged), or it
\* panics: the deferred recover logs, counts the panic and the goroutine ends.
CleanerCleanup(i) ==
    /\ cleanerPc[i] = "cleanup"
    /\ \E out \in {"done", "panic"} :
         /\ cleanerPc' = [cleanerPc EXCEPT ![i] = IF out = "panic" THEN "exited" ELSE "select"]
         /\ panics' = IF out = "panic" THEN panics + 1 ELSE panics
    /\ dbFault' = (dbFault \/ AuthDB = Nil)
    /\ UNCHANGED <<AuthDB, dbHandles, removals, opc, initList, initResult, closeResult,
                   writerPc, spawned, ctxDone, natsConfigured>>
    /\ UNCHANGED <<initListed, initTried, initFailed, closeLog>>
    /\ UNCHANGED <<natsVars, envVars, workVars, loopVars, fsVars, mu>>

\* case <-t.C: the 24 hour ticker fires and the loop runs the cleanup again.
CleanerTick(i) ==
    /\ cleanerPc[i] = "select"
    /\ cleanerPc' = [cleanerPc EXCEPT ![i] = "cleanup"]
    /\ UNCHANGED <<AuthDB, dbHandles, removals, opc, initList, initResult, closeResult,
                   writerPc, spawned, ctxDone, panics, natsConfigured>>
    /\ UNCHANGED <<histVars, natsVars, envVars, workVars, loopVars, fsVars, mu>>

\* A cleaner whose select takes the cancellation and goes on waiting.
CtxDoneIgnored == "select"

\* Where the cleaner is after case <-ctx.Done(): it returns.
AfterCtxDone == "exited"

\* case <-ctx.Done(): return
CleanerCtxDone(i) ==
    /\ cleanerPc[i] = "select"
    /\ ctxDone
    /\ cleanerPc' = [cleanerPc EXCEPT ![i] = AfterCtxDone]
    /\ UNCHANGED <<AuthDB, dbHandles, removals, opc, initList, initResult, closeResult,
                   writerPc, spawned, ctxDone, panics, natsConfigured>>
    /\ UNCHANGED <<histVars, natsVars, envVars, workVars, loopVars, fsVars, mu>>

\* A cleaner that goes on with its loop after the acknowledgment.
CleanerLoopsAfterAck == "cleanup"

\* Where the cleaner is after c <- struct{}{}: it returns.
CleanerAfterAck == "exited"

(* ------------- the login-attempt writer (startLoginAttemptWriter) ------ *)

\* The writer received a stop request: it writes the attempts still queued.
WriterFlush(i) ==
    /\ writerPc[i] = "flush"
    /\ writerPc' = [writerPc EXCEPT ![i] = "ack"]
    /\ dbFault' = (dbFault \/ AuthDB = Nil)
    /\ UNCHANGED <<AuthDB, dbHandles, removals, opc, initList, initResult, closeResult,
                   cleanerPc, spawned, ctxDone, panics, natsConfigured>>
    /\ UNCHANGED <<initListed, initTried, initFailed, closeLog>>
    /\ UNCHANGED <<natsVars, envVars, workVars, loopVars, fsVars, mu>>

\* The writer observes the cancelled context and returns.
WriterCtxDone(i) ==
    /\ writerPc[i] = "select"
    /\ ctxDone
    /\ writerPc' = [writerPc EXCEPT ![i] = "exited"]
    /\ UNCHANGED <<AuthDB, dbHandles, removals, opc, initList, initResult, closeResult,
                   cleanerPc, spawned, ctxDone, panics, natsConfigured>>
    /\ UNCHANGED <<histVars, natsVars, envVars, workVars, loopVars, fsVars, mu>>

\* The process context is cancelled.
CancelCtx ==
    /\ ~ctxDone
    /\ ctxDone' = TRUE
    /\ UNCHANGED <<AuthDB, dbHandles, removals, opc, initList, initResult, closeResult,
                   writerPc, cleanerPc, spawned, panics, natsConfigured>>
    /\ UNCHANGED <<histVars, natsVars, envVars, workVars, loopVars, fsVars, mu>>

(* ---------------------- store.Close (part_000) ------------------------ *)

\* (nc *NATSClient).Close(): nil for a nil client or connection; otherwise
\* nc.conn.Close() under nc.mu. The value is the connection's closed flag after it.
NATSClientClose == IF globalNATSClient = Nil THEN connClosed ELSE TRUE

\* Close's guard: auth.db is not open.
NotOpen == AuthDB = Nil

\* Close's guard.
CloseCall ==
    /\ opc = "idle"
    /\ IF NotOpen
       THEN /\ closeResult' = "not open"
            /\ UNCHANGED <<opc, closeLog>>
       ELSE /\ opc' = "close_w_send"
            /\ closeResult' = "running"
            /\ closeLog' = <<>>
    /\ UNCHANGED <<AuthDB, dbHandles, removals, initList, initResult, writerPc, cleanerPc,
                   spawned, ctxDone, panics, natsConfigured>>
    /\ UNCHANGED <<initListed, initTried, initFailed, dbFault>>
    /\ UNCHANGED <<natsVars, envVars, workVars, loopVars, fsVars, mu>>

\* writeLoginAttemptStop <- stopc: the send on the unbuffered channel completes
\* when a writer receives it.
CloseStopWriter(i) ==
    /\ opc = "close_w_send"
    /\ writerPc[i] = "select"
    /\ writerPc' = [writerPc EXCEPT ![i] = "flush"]
    /\ opc' = "close_w_ack"
    /\ closeLog' = Append(closeLog, "stop writer")
    /\ UNCHANGED <<AuthDB, dbHandles, removals, initList, initResult, closeResult, cleanerPc,
                   spawned, ctxDone, panics, natsConfigured>>
    /\ UNCHANGED <<initListed, initTried, initFailed, dbFault>>
    /\ UNCHANGED <<natsVars, envVars, workVars, loopVars, fsVars, mu>>

\* A Close that goes from the writer straight to the archival client.
SkipCleanerStop == "close_nats"

\* What Close does once the writer has acknowledged: it stops the cleaner.
AfterWriterAck == "close_c_send"

\* <-stopc: the writer's acknowledgment, after which it returns.
CloseAckWriter(i) ==
    /\ opc = "close_w_ack"
    /\ writerPc[i] = "ack"
    /\ writerPc' = [writerPc EXCEPT ![i] = "exited"]
    /\ opc' = AfterWriterAck
    /\ closeLog' = Append(closeLog, "ack writer")
    /\ UNCHANGED <<AuthDB, dbHandles, removals, initList, initResult, closeResult, cleanerPc,
                   spawned, ctxDone, panics, natsConfigured>>
    /\ UNCHANGED <<initListed, initTried, initFailed, dbFault>>
    /\ UNCHANGED <<natsVars, envVars, workVars, loopVars, fsVars, mu>>

\* loginAttemptCleanerStop <- stopc, received by case c := <-loginAttemptCleanerStop.
CloseStopCleaner(i) ==
    /\ opc = "close_c_send"
    /\ cleanerPc[i] = "select"
    /\ cleanerPc' = [cleanerPc EXCEPT ![i] = "ack"]
    /\ opc' = "close_c_ack"
    /\ closeLog' = Append(closeLog, "stop cleaner")
    /\ UNCHANGED <<AuthDB, dbHandles, removals, initList, initResult, closeResult, writerPc,
                   spawned, ctxDone, panics, natsConfigured>>
    /\ UNCHANGED <<initListed, initTried, initFailed, dbFault>>
    /\ UNCHANGED <<natsVars, envVars, workVars, loopVars, fsVars, mu>>

\* <-stopc, sent by the cleaner's c <- struct{}{}; the cleaner then returns.
CloseAckCleaner(i) ==
    /\ opc = "close_c_ack"
    /\ cleanerPc[i] = "ack"
    /\ cleanerPc' = [cleanerPc EXCEPT ![i] = CleanerAfterAck]
    /\ opc' = "close_nats"
    /\ closeLog' = Append(closeLog, "ack cleaner")
    /\ UNCHANGED <<AuthDB, dbHandles, removals, initList, initResult, closeResult, writerPc,
                   spawned, ctxDone, panics, natsConfigured>>
    /\ UNCHANGED <<initListed, initTried, initFailed, dbFault>>
    /\ UNCHANGED <<natsVars, envVars, workVars, loopVars, fsVars, mu>>

\* GetNATSClient() and natsClient.Close(): with a client, it takes nc.mu and
\* closes the connection; the retry loop is not told anything.
CloseNATS ==
    /\ opc = "close_nats"
    /\ IF globalNATSClient = Nil
       THEN UNCHANGED <<connClosed, closeLog>>
       ELSE /\ mu = Free
            /\ connClosed' = NATSClientClose
            /\ closeLog' = Append(closeLog, "close nats")
    /\ opc' = "close_db"
    /\ UNCHANGED <<AuthDB, dbHandles, removals, initList, initResult, closeResult, writerPc,
                   cleanerPc, spawned, ctxDone, panics, natsConfigured>>
    /\ UNCHANGED <<initListed, initTried, initFailed, dbFault>>
    /\ UNCHANGED <<natsOnce, natsPc, natsRes, natsCfg, globalNATSClient, connAttempts>>
    /\ UNCHANGED <<envVars, workVars, loopVars, fsVars, mu>>

\* err := AuthDB.Close(); AuthDB = nil; return err
CloseDB ==
    /\ opc = "close_db"
    /\ AuthDB' = Nil
    /\ dbHandles' = dbHandles - 1
    /\ \E err \in {"ok", "close error"} : closeResult' = err
    /\ closeLog' = Append(closeLog, "close db")
    /\ opc' = "idle"
    /\ UNCHANGED <<removals, initList, initResult, writerPc, cleanerPc, spawned, ctxDone,
                   panics, natsConfigured>>
    /\ UNCHANGED <<initListed, initTried, initFailed, dbFault>>
    /\ UNCHANGED <<natsVars, envVars, workVars, loopVars, fsVars, mu>>

(* -------------------- names and listings (part_001) ------------------- *)

\* fmt.Sprintf("msg-%d-%d", messageID, time.Now().Unix())
ObjectName(m, t) == <<"msg", m, t>>

\* fmt.Sprintf("msg-%d-%d-%d", messageID, time.Now().UnixNano(), rand.Intn(10000))
QueueName(m, t, s) == <<"msg", m, t, s>>

\* fmt.Sscanf(f.Name(), "msg-%d-", &messageID) succeeds
ParseOK(name) == Len(name) >= 3 /\ name[1] = "msg" /\ name[2] \in Int

\* the messageID that Sscanf reads
ParseMessageID(name) == name[2]

\* Place of the first part of a file name in the order of file names: "junk"
\* comes before "msg".
Rank(p) == IF p = "msg" THEN 1 ELSE 0

\* Order of two file names that differ, as os.ReadDir sorts them.
NameLess(a, b) ==
    \/ Rank(a[1]) < Rank(b[1])
    \/ /\ Rank(a[1]) = Rank(b[1])
       /\ \E k \in 2..4 : /\ \A j \in 2..(k - 1) : a[j] = b[j]
                          /\ a[k] < b[k]

\* os.ReadDir(pendingNATSDir): the entries sorted by file name.
RECURSIVE SortNames(_)
SortNames(S) ==
    IF S = {} THEN <<>>
    ELSE LET x == CHOOSE x \in S : \A y \in S \ {x} : NameLess(x, y)
         IN <<x>> \o SortNames(S \ {x})

\* An os.Remove that deletes some file when the named one is not there.
RemoveSome(f, n) ==
    IF n \in DOMAIN f \/ DOMAIN f = {} THEN [x \in DOMAIN f \ {n} |-> f[x]]
    ELSE LET y == CHOOSE y \in DOMAIN f : TRUE
         IN [x \in DOMAIN f \ {y} |-> f[x]]

\* A function without one point of its domain: os.Remove of a spool file. A
\* name that is not in the directory leaves it as it is (the error is dropped).
Without(f, n) == [x \in DOMAIN f \ {n} |-> f[x]]

\* nc.IsConnected(): nil client or nil conn is false, else conn.IsConnected().
IsConnected == globalNATSClient # Nil /\ ~connClosed /\ remoteUp

\* nc.os.Put: it succeeds only over a live connection, and while the service is
\* not yet stable it may also fail (a timeout, a lost connection). "store error"
\* is any non-nil error of StoreMessage.
PutOutcomes ==
    IF IsConnected
    THEN (IF stable THEN {"ok"} ELSE {"ok", "store error"})
    ELSE {"store error"}

(* ------------------ store calls (part_001, 155-281) ------------------- *)

\* No message file and no bytes read.
NoSource == [file |-> 0, data |-> 0]

\* The fields of a goroutine that runs no store call.
IdleWorker(w) ==
    /\ wpc' = [wpc EXCEPT ![w] = "idle"]
    /\ wkind' = [wkind EXCEPT ![w] = "none"]
    /\ wmsg' = [wmsg EXCEPT ![w] = 0]
    /\ wobj' = [wobj EXCEPT ![w] = None]
    /\ wname' = [wname EXCEPT ![w] = None]
    /\ wwritten' = [wwritten EXCEPT ![w] = 0]
    /\ wput' = [wput EXCEPT ![w] = "none"]
    /\ wres' = [wres EXCEPT ![w] = "none"]
    /\ wdel' = [wdel EXCEPT ![w] = 0]
    /\ wsrc' = [wsrc EXCEPT ![w] = NoSource]

\* A call returns res.
Returns(w, res) ==
    /\ wpc' = [wpc EXCEPT ![w] = "ret"]
    /\ wres' = [wres EXCEPT ![w] = res]

\* Calls without the nil check.
ClientNeverAbsent == FALSE

\* if nc == nil: the receiver of the call is the nil client.
ClientAbsent == globalNATSClient = Nil

\* Entry of StoreMessage, StoreMessageWithQueue (kind "sync") and
\* StoreMessageAsync: a nil client returns at once. StoreMessageAsync seeks and
\* reads the whole file (data) before it starts the goroutine; a failure there is
\* logged. The message file holds PayloadLen bytes when the call is made.
StoreCall(w, m, kind) ==
    /\ wpc[w] = "idle"
    /\ wkind' = [wkind EXCEPT ![w] = kind]
    /\ wmsg' = [wmsg EXCEPT ![w] = m]
    /\ IF ClientAbsent
       THEN /\ Returns(w, "nil")
            /\ UNCHANGED <<calls, wsrc>>
       ELSE /\ calls < MaxCalls
            /\ calls' = calls + 1
            /\ \/ /\ wpc' = [wpc EXCEPT ![w] = IF kind = "async" THEN "tmp" ELSE "lock"]
                  /\ wsrc' = [wsrc EXCEPT ![w] =
                                [file |-> PayloadLen,
                                 data |-> IF kind = "async" THEN PayloadLen ELSE 0]]
                  /\ UNCHANGED wres
               \/ /\ kind = "async"
                  /\ diskFaulty
                  /\ wsrc' = [wsrc EXCEPT ![w] = [file |-> PayloadLen, data |-> 0]]
                  /\ Returns(w, "read error")
    /\ UNCHANGED <<wobj, wname, wwritten, wput, wdel>>
    /\ UNCHANGED envVars
    /\ UNCHANGED <<lifeVars, histVars, natsVars, loopVars, fsVars, mu>>

StoreMessageCall(w, m) == StoreCall(w, m, "direct")
StoreMessageWithQueueCall(w, m) == StoreCall(w, m, "sync")
StoreMessageAsyncCall(w, m) == StoreCall(w, m, "async")

\* Config(), IsConnected() and Close() called on the client by goroutine w. They
\* return the configuration (nil for a nil client), whether the connection is
\* live, and nil.
QueryCall(w, kind) ==
    /\ wpc[w] = "idle"
    /\ kind \in {"config", "connected", "close"}
    /\ kind = "close" => (ClientAbsent \/ mu = Free)
    /\ wkind' = [wkind EXCEPT ![w] = kind]
    /\ Returns(w, CASE kind = "config" -> IF ClientAbsent THEN "nil" ELSE "config"
                     [] kind = "connected" -> IF IsConnected THEN "true" ELSE "false"
                     [] kind = "close" -> "nil")
    /\ connClosed' = IF kind = "close" THEN NATSClientClose ELSE connClosed
    /\ UNCHANGED <<wmsg, wobj, wname, wwritten, wput, wdel, wsrc, calls>>
    /\ UNCHANGED <<natsOnce, natsPc, natsRes, natsCfg, globalNATSClient, connAttempts>>
    /\ UNCHANGED <<lifeVars, histVars, envVars, loopVars, fsVars, mu>>

\* The goroutine of StoreMessageAsync: os.CreateTemp and f.Write(data), then
\* StoreMessageWithQueue on the temporary file.
AsyncTemp(w) ==
    /\ wpc[w] = "tmp"
    /\ \/ /\ wpc' = [wpc EXCEPT ![w] = "lock"]
          /\ UNCHANGED wres
       \/ /\ diskFaulty
          /\ Returns(w, "temp file error")
    /\ UNCHANGED <<wkind, wmsg, wobj, wname, wwritten, wput, wdel, wsrc, calls>>
    /\ UNCHANGED envVars
    /\ UNCHANGED <<lifeVars, histVars, natsVars, loopVars, fsVars, mu>>

\* A lock that never makes a caller wait.
LockAlwaysFree == TRUE

\* nc.mu.Lock() can be taken.
CanLock == mu = Free

\* StoreMessage: nc.mu.Lock() and the object name.
StoreLock(w) ==
    /\ wpc[w] = "lock"
    /\ CanLock
    /\ mu' = w
    /\ wobj' = [wobj EXCEPT ![w] = ObjectName(wmsg[w], now)]
    /\ wpc' = [wpc EXCEPT ![w] = "put"]
    /\ UNCHANGED <<wkind, wmsg, wname, wwritten, wput, wres, wdel, wsrc, calls>>
    /\ UNCHANGED <<lifeVars, histVars, natsVars, envVars, loopVars, fsVars>>

\* A StoreMessageAsync whose goroutine stores from the caller's file.
SourceIsCallerFile(w) == wsrc[w].file

\* Number of bytes in the file that the call stores and queues: for
\* StoreMessageAsync the temporary file written from data, otherwise msgFile.
SourceLen(w) == IF wkind[w] = "async" THEN wsrc[w].data ELSE wsrc[w].file

\* What the caller of StoreMessageAsync does with its message file once the call
\* has returned (the goroutine is on its way): it closes, truncates or deletes
\* it, which leaves no byte of the message in it.
CallerChangesFile(w) ==
    /\ wkind[w] = "async"
    /\ wpc[w] \in {"tmp", "lock", "put", "enqueue", "copy", "ret"}
    /\ wsrc[w].file # 0
    /\ wsrc' = [wsrc EXCEPT ![w].file = 0]
    /\ UNCHANGED <<wpc, wkind, wmsg, wobj, wname, wwritten, wput, wres, wdel, calls>>
    /\ UNCHANGED <<lifeVars, histVars, natsVars, envVars, loopVars, fsVars, mu>>

\* A StoreMessageWithQueue that takes every store for a success.
StoreAlwaysSucceeded(out) == TRUE

\* if err == nil after nc.StoreMessage(ctx, messageID, msgFile)
StoreSucceeded(out) == out = "ok"

\* StoreMessage: the seek (which fails only on a failing disk), nc.os.Put of the
\* whole file and the deferred Unlock. StoreMessage itself returns the error;
\* StoreMessageWithQueue goes on to queue the message.
StorePut(w) ==
    /\ wpc[w] = "put"
    /\ mu' = Free
    /\ \E out \in PutOutcomes \cup (IF diskFaulty THEN {"store error"} ELSE {}) :
         /\ wput' = [wput EXCEPT ![w] = out]
         /\ remote' = IF out = "ok" THEN (wobj[w] :> SourceLen(w)) @@ remote ELSE remote
         /\ IF StoreSucceeded(out) THEN Returns(w, "nil")
            ELSE IF wkind[w] = "direct" THEN Returns(w, out)
            ELSE /\ wpc' = [wpc EXCEPT ![w] = "enqueue"]
                 /\ UNCHANGED wres
    /\ wobj' = [wobj EXCEPT ![w] = None]
    /\ UNCHANGED <<wkind, wmsg, wname, wwritten, wdel, wsrc, calls>>
    /\ UNCHANGED <<envVars, spool, unlinked>>
    /\ UNCHANGED <<lifeVars, histVars, natsVars, loopVars>>

\* StoreMessageWithQueue after a failed store: the seek and
\* os.OpenFile(queueName, O_CREATE|O_WRONLY|O_EXCL): an existing name is an error.
StoreEnqueue(w) ==
    /\ wpc[w] = "enqueue"
    /\ \/ /\ diskFaulty
          /\ Returns(w, "seek for queue error")
          /\ UNCHANGED <<spool, wname>>
       \/ \E s \in Salts :
            LET n == QueueName(wmsg[w], now, s) IN
            IF n \in DOMAIN spool
            THEN /\ Returns(w, "create queue file error")
                 /\ UNCHANGED <<spool, wname>>
            ELSE \/ /\ spool' = spool @@ (n :> [size |-> 0, owner |-> w, dir |-> FALSE])
                    /\ wname' = [wname EXCEPT ![w] = n]
                    /\ wpc' = [wpc EXCEPT ![w] = "copy"]
                    /\ UNCHANGED wres
                 \/ /\ diskFaulty
                    /\ Returns(w, "create queue file error")
                    /\ UNCHANGED <<spool, wname>>
    /\ UNCHANGED <<wkind, wmsg, wobj, wwritten, wput, wdel, wsrc, calls>>
    /\ UNCHANGED <<envVars, remote, unlinked>>
    /\ UNCHANGED <<lifeVars, histVars, natsVars, loopVars, mu>>

\* A StoreMessageWithQueue that returns nil once the message is queued.
QueueReturnNil(err) == "nil"

\* What StoreMessageWithQueue returns once the copy to the queue file is done:
\* the error of the failed store.
QueueReturn(err) == err

\* io.Copy(out, msgFile), one write at a time, into the file this call created
\* (which may have been unlinked meanwhile); then return err.
StoreCopy(w) ==
    /\ wpc[w] = "copy"
    /\ \/ \E k \in 1..(SourceLen(w) - wwritten[w]) :
            LET size == wwritten[w] + k
                linked == wname[w] \in DOMAIN spool /\ spool[wname[w]].owner = w
            IN /\ wwritten' = [wwritten EXCEPT ![w] = size]
               /\ spool' = IF linked
                           THEN [spool EXCEPT ![wname[w]].size = size]
                           ELSE spool
               /\ IF size = SourceLen(w)
                  THEN Returns(w, QueueReturn(wput[w]))
                  ELSE UNCHANGED <<wpc, wres>>
       \/ /\ SourceLen(w) = wwritten[w]
          /\ Returns(w, QueueReturn(wput[w]))
          /\ UNCHANGED <<spool, wwritten>>
       \/ /\ diskFaulty
          /\ Returns(w, "copy to queue error")
          /\ UNCHANGED <<spool, wwritten>>
    /\ UNCHANGED <<wkind, wmsg, wobj, wname, wput, wdel, wsrc, calls>>
    /\ UNCHANGED <<envVars, remote, unlinked>>
    /\ UNCHANGED <<lifeVars, histVars, natsVars, loopVars, mu>>

\* The delivery in forward-only mode: it calls StoreMessageWithQueue and
\* expunges the local message only when that returned nil.
CallerDeletes(w) ==
    /\ wkind[w] = "sync"
    /\ globalNATSClient # Nil
    /\ deleteAfterStore
    /\ wres[w] = "nil"

ForwardDelete(w) ==
    /\ wpc[w] = "ret"
    /\ CallerDeletes(w)
    /\ wdel[w] = 0
    /\ wdel' = [wdel EXCEPT ![w] = 1]
    /\ UNCHANGED <<wpc, wkind, wmsg, wobj, wname, wwritten, wput, wres, wsrc, calls>>
    /\ UNCHANGED <<lifeVars, histVars, natsVars, envVars, loopVars, fsVars, mu>>

\* The call (or the detached goroutine) is over.
CallDone(w) ==
    /\ wpc[w] = "ret"
    /\ ~(CallerDeletes(w) /\ wdel[w] = 0)
    /\ IdleWorker(w)
    /\ UNCHANGED calls
    /\ UNCHANGED <<lifeVars, histVars, natsVars, envVars, loopVars, fsVars, mu>>

(* ------------- processPendingNATSLoop (part_001, 283-322) ------------- *)

\* Where the loop is after the file at the head of rest's predecessor: the next
\* file, or time.Sleep(30 * time.Second) after the last.
AfterFile(rest) == IF rest = <<>> THEN "sleep" ELSE "scan"

\* files once the loop has handled a file: the slice is dead when the pass ends.
FilesAfter(rest) == IF rest = <<>> THEN <<>> ELSE files

\* os.ReadDir(pendingNATSDir) after the sleep (an error sleeps again and changes
\* nothing).
LoopReadDir ==
    /\ lpc = "sleep"
    /\ lfiles' = SortNames(DOMAIN spool)
    /\ files' = lfiles'
    /\ lfail' = FALSE
    /\ lpc' = AfterFile(lfiles')
    /\ UNCHANGED <<lcur, lobj>>
    /\ UNCHANGED envVars
    /\ UNCHANGED <<lifeVars, histVars, natsVars, workVars, fsVars, mu>>

\* A retry loop that never waits for the client.
NeverWaits == FALSE

\* A retry loop without the check for directories.
NoDirCheck(n) == FALSE

\* f.IsDir() of an entry of the listing.
IsDir(n) == n \in DOMAIN spool /\ spool[n].dir

\* The retry loop gives up the pass: client == nil || !client.IsConnected()
LoopMustWait == globalNATSClient = Nil \/ ~IsConnected

\* One file of the listing up to os.Open: a directory is skipped, a name that
\* does not parse is skipped,
\* no live client ends the pass, a file that cannot be opened is skipped.
LoopNext ==
    /\ lpc = "scan"
    /\ LET f == Head(lfiles)
           rest == Tail(lfiles)
       IN IF IsDir(f) \/ ~ParseOK(f)
          THEN /\ lfiles' = rest
               /\ lpc' = AfterFile(rest)
               /\ UNCHANGED lcur
          ELSE IF LoopMustWait
          THEN /\ lfiles' = <<>>
               /\ lpc' = "sleep"
               /\ UNCHANGED lcur
          ELSE IF f \notin DOMAIN spool
          THEN /\ lfiles' = rest
               /\ lpc' = AfterFile(rest)
               /\ UNCHANGED lcur
          ELSE \/ /\ lcur' = f
                  /\ lpc' = "lock"
                  /\ UNCHANGED lfiles
               \/ /\ diskFaulty
                  /\ lfiles' = rest
                  /\ lpc' = AfterFile(rest)
                  /\ UNCHANGED lcur
    /\ files' = FilesAfter(lfiles')
    /\ lfail' = (lfail \/ (~IsDir(Head(lfiles)) /\ ParseOK(Head(lfiles)) /\ LoopMustWait))
    /\ UNCHANGED lobj
    /\ UNCHANGED envVars
    /\ UNCHANGED <<lifeVars, histVars, natsVars, workVars, fsVars, mu>>

\* client.StoreMessage(ctx, messageID, file): nc.mu.Lock() and the object name.
LoopLock ==
    /\ lpc = "lock"
    /\ CanLock
    /\ mu' = LoopProc
    /\ lobj' = ObjectName(ParseMessageID(lcur), now)
    /\ lpc' = "put"
    /\ UNCHANGED <<lfiles, lcur, files, lfail>>
    /\ UNCHANGED <<lifeVars, histVars, natsVars, envVars, workVars, fsVars>>

\* A retry loop that removes the file whatever StoreMessage returned.
RemoveAlways(storeErr) == TRUE

\* What the loop does with the file after StoreMessage returned storeErr.
RemoveAfter(storeErr) == storeErr = "ok"

\* A retry loop that gives up the pass when a Put has failed.
StopAfterStoreError(rest) == <<>>

\* What is left of the pass after StoreMessage returned an error: the else
\* branch is empty and the for loop goes on with the next file.
AfterStoreError(rest) == rest

\* Bytes that the loop reads through its open handle: a file that was removed
\* after os.Open keeps its content until the handle is closed.
OpenedSize(n) == IF n \in DOMAIN spool THEN spool[n].size ELSE unlinked[n]

\* The Put of the file as it is now, the Unlock, file.Close() and, when storeErr
\* is nil, os.Remove(path).
LoopPut ==
    /\ lpc = "put"
    /\ mu' = Free
    /\ \E out \in PutOutcomes :
         /\ remote' = IF out = "ok" THEN (lobj :> OpenedSize(lcur)) @@ remote ELSE remote
         /\ spool' = IF RemoveAfter(out) THEN Without(spool, lcur) ELSE spool
         /\ lfail' = (lfail \/ out # "ok")
         /\ lfiles' = IF out = "ok" THEN Tail(lfiles) ELSE AfterStoreError(Tail(lfiles))
    /\ UNCHANGED unlinked
    /\ files' = FilesAfter(lfiles')
    /\ lpc' = AfterFile(lfiles')
    /\ lcur' = None
    /\ lobj' = None
    /\ UNCHANGED <<lifeVars, histVars, natsVars, envVars, workVars>>

(* ---------------------------- environment ----------------------------- *)

\* Something else than the retry loop (an operator, a second process on the same
\* data directory) removes a queue file.
ExternalRemove(n) ==
    /\ n \in DOMAIN spool
    /\ n \notin DOMAIN unlinked
    /\ spool' = Without(spool, n)
    /\ unlinked' = (n :> spool[n].size) @@ unlinked
    /\ UNCHANGED remote
    /\ UNCHANGED <<lifeVars, histVars, natsVars, envVars, workVars, loopVars, mu>>

RemoteDown ==
    /\ remoteUp
    /\ ~stable
    /\ remoteUp' = FALSE
    /\ UNCHANGED <<stable, now, diskFaulty, deleteAfterStore>>
    /\ UNCHANGED <<lifeVars, histVars, natsVars, workVars, loopVars, fsVars, mu>>

RemoteUp ==
    /\ ~remoteUp
    /\ remoteUp' = TRUE
    /\ UNCHANGED <<stable, now, diskFaulty, deleteAfterStore>>
    /\ UNCHANGED <<lifeVars, histVars, natsVars, workVars, loopVars, fsVars, mu>>

\* From now on the service stays reachable and stores succeed.
Stabilize ==
    /\ remoteUp
    /\ ~stable
    /\ stable' = TRUE
    /\ UNCHANGED <<remoteUp, now, diskFaulty, deleteAfterStore>>
    /\ UNCHANGED <<lifeVars, histVars, natsVars, workVars, loopVars, fsVars, mu>>

Tick ==
    /\ now < MaxTime
    /\ now' = now + 1
    /\ UNCHANGED <<remoteUp, stable, diskFaulty, deleteAfterStore>>
    /\ UNCHANGED <<lifeVars, histVars, natsVars, workVars, loopVars, fsVars, mu>>

(* --------------------------- specifications --------------------------- *)

EmptyMap == [x \in {} |-> 0]

\* A queue file left in store/tmp/nats-pending by an earlier run of the process.
LeftOver == QueueName(1, 0, 0) :> [size |-> PayloadLen, owner |-> LoopProc, dir |-> FALSE]

\* No store call runs and the retry loop sleeps.
PipelineIdle ==
    /\ mu = Free
    /\ remote = EmptyMap
    /\ unlinked = EmptyMap
    /\ wpc = [w \in Workers |-> "idle"]
    /\ wkind = [w \in Workers |-> "none"]
    /\ wmsg = [w \in Workers |-> 0]
    /\ wobj = [w \in Workers |-> None]
    /\ wname = [w \in Workers |-> None]
    /\ wwritten = [w \in Workers |-> 0]
    /\ wput = [w \in Workers |-> "none"]
    /\ wres = [w \in Workers |-> "none"]
    /\ wdel = [w \in Workers |-> 0]
    /\ wsrc = [w \in Workers |-> NoSource]
    /\ calls = 0
    /\ lpc = "sleep"
    /\ lfiles = <<>>
    /\ files = <<>>
    /\ lfail = FALSE
    /\ lcur = None
    /\ lobj = None
    /\ now = 0

NoHistory ==
    /\ initListed = {}
    /\ initTried = {}
    /\ initFailed = {}
    /\ closeLog = <<>>
    /\ dbFault = FALSE

\* The process has started: init() has started the retry loop, Init was not called.
Init ==
    /\ AuthDB = Nil
    /\ dbHandles = 0
    /\ removals \in SUBSET Accounts
    /\ opc = "idle"
    /\ initList = <<>>
    /\ initResult = "none"
    /\ closeResult = "none"
    /\ writerPc = [i \in Instances |-> "none"]
    /\ cleanerPc = [i \in Instances |-> "none"]
    /\ spawned = 0
    /\ ctxDone = FALSE
    /\ panics = 0
    /\ natsConfigured \in BOOLEAN
    /\ NoHistory
    /\ natsOnce = "new"
    /\ natsPc = [p \in NatsProcs |-> "idle"]
    /\ natsRes = [p \in NatsProcs |-> "none"]
    /\ natsCfg = [p \in NatsProcs |-> "none"]
    /\ globalNATSClient = Nil
    /\ connClosed = FALSE
    /\ connAttempts = 0
    /\ remoteUp = TRUE
    /\ stable = FALSE
    /\ deleteAfterStore = FALSE
    /\ diskFaulty = FALSE
    /\ spool = EmptyMap
    /\ PipelineIdle

\* A store call made while there is no client.
AbsentClientCall(w, m) ==
    /\ globalNATSClient = Nil
    /\ \/ StoreMessageCall(w, m)
       \/ StoreMessageWithQueueCall(w, m)
       \/ StoreMessageAsyncCall(w, m)

\* Config(), IsConnected() or Close() called while there is no client.
AbsentClientQuery(w, kind) ==
    /\ globalNATSClient = Nil
    /\ QueryCall(w, kind)

Next ==
    \/ InitCall
    \/ InitRemove
    \/ InitStartWorkers
    \/ InitNATSStep
    \/ InitNATSDone
    \/ CloseCall
    \/ \E i \in Instances :
         \/ CleanerCleanup(i)
         \/ CleanerTick(i)
         \/ CleanerCtxDone(i)
         \/ WriterFlush(i)
         \/ WriterCtxDone(i)
         \/ CloseStopWriter(i)
         \/ CloseAckWriter(i)
         \/ CloseStopCleaner(i)
         \/ CloseAckCleaner(i)
    \/ CloseNATS
    \/ CloseDB
    \/ CancelCtx
    \/ RemoteDown
    \/ RemoteUp
    \/ \E m \in MsgIds : AbsentClientCall(FirstWorker, m)
    \/ CallDone(FirstWorker)

Spec == Init /\ [][Next]_vars

\* InitNATS called directly by goroutine p, with or without a configuration.
DirectInitNATS(p) ==
    /\ \/ \E cfg \in BOOLEAN : InitNATSEnter(p, cfg)
       \/ InitNATSConstruct(p)
       \/ InitNATSWake(p)
    /\ UNCHANGED <<lifeVars, histVars, envVars, workVars, loopVars, fsVars, mu>>

InitOnce ==
    /\ Init
    /\ removals = {}
    /\ natsConfigured = FALSE
    /\ spool = EmptyMap

NextOnce ==
    \/ \E p \in NatsProcs \ {OwnerProc} : DirectInitNATS(p)
    \/ RemoteDown
    \/ RemoteUp

SpecOnce == InitOnce /\ [][NextOnce]_vars

\* Init has returned nil: auth.db is open, the workers run, and InitNATS has
\* either constructed the client or left it absent.
Initialized ==
    /\ AuthDB = "open"
    /\ dbHandles = 1
    /\ removals = {}
    /\ opc = "idle"
    /\ initList = <<>>
    /\ initResult = "ok"
    /\ closeResult = "none"
    /\ writerPc = [i \in Instances |-> IF i = 1 THEN "select" ELSE "none"]
    /\ cleanerPc = [i \in Instances |-> IF i = 1 THEN "select" ELSE "none"]
    /\ spawned = 1
    /\ ctxDone = FALSE
    /\ panics = 0
    /\ NoHistory
    /\ globalNATSClient \in {Nil, Client}
    /\ natsConfigured = (globalNATSClient # Nil)
    /\ natsOnce = IF natsConfigured THEN "done" ELSE "new"
    /\ natsPc = [p \in NatsProcs |-> "idle"]
    /\ natsRes = [p \in NatsProcs |-> IF p = OwnerProc THEN "nil" ELSE "none"]
    /\ natsCfg = [p \in NatsProcs |->
                    IF p # OwnerProc THEN "none"
                    ELSE IF natsConfigured THEN "cfg" ELSE "nil"]
    /\ connClosed = FALSE
    /\ connAttempts = IF natsConfigured THEN 1 ELSE 0
    /\ remoteUp = TRUE
    /\ stable = FALSE
    /\ deleteAfterStore = natsConfigured
    /\ PipelineIdle

InitStore ==
    /\ Initialized
    /\ diskFaulty \in BOOLEAN
    /\ spool \in (IF globalNATSClient = Nil THEN {EmptyMap, LeftOver} ELSE {EmptyMap})

NextStore ==
    \/ \E w \in Workers, m \in MsgIds :
         \/ StoreMessageCall(w, m)
         \/ StoreMessageWithQueueCall(w, m)
         \/ StoreMessageAsyncCall(w, m)
    \/ \E w \in Workers :
         \/ AsyncTemp(w)
         \/ StoreLock(w)
         \/ StorePut(w)
         \/ StoreEnqueue(w)
         \/ StoreCopy(w)
         \/ ForwardDelete(w)
         \/ CallDone(w)
    \/ LoopReadDir
    \/ LoopNext
    \/ LoopLock
    \/ LoopPut
    \/ \E w \in Workers, kind \in {"config", "connected", "close"} : AbsentClientQuery(w, kind)
    \/ RemoteDown
    \/ RemoteUp
    \/ Tick

SpecStore == InitStore /\ [][NextStore]_vars

\* The pipeline on a constructed client and a healthy disk, with a service that
\* at some point may become reachable for good, and with every goroutine that can
\* take a step eventually taking it (nc.mu is handed to each waiter in turn).
InitFair ==
    /\ InitStore
    /\ globalNATSClient = Client
    /\ ~diskFaulty

NextFair ==
    \/ \E w \in Workers, m \in MsgIds :
         \/ StoreMessageCall(w, m)
         \/ StoreMessageWithQueueCall(w, m)
         \/ StoreMessageAsyncCall(w, m)
    \/ \E w \in Workers :
         \/ AsyncTemp(w)
         \/ StoreLock(w)
         \/ StorePut(w)
         \/ StoreEnqueue(w)
         \/ StoreCopy(w)
         \/ ForwardDelete(w)
         \/ CallDone(w)
    \/ LoopReadDir
    \/ LoopNext
    \/ LoopLock
    \/ LoopPut
    \/ RemoteDown
    \/ RemoteUp
    \/ Stabilize
    \/ Tick

Scheduling ==
    /\ \A w \in Workers :
         /\ WF_vars(AsyncTemp(w))
         /\ SF_vars(StoreLock(w))
         /\ WF_vars(StorePut(w))
         /\ WF_vars(StoreEnqueue(w))
         /\ WF_vars(StoreCopy(w))
         /\ WF_vars(ForwardDelete(w))
         /\ WF_vars(CallDone(w))
    /\ WF_vars(LoopReadDir)
    /\ WF_vars(LoopNext)
    /\ SF_vars(LoopLock)
    /\ WF_vars(LoopPut)

FairStore == InitFair /\ [][NextFair]_vars /\ Scheduling

\* The retry loop over two queue files left by an earlier run, on a constructed
\* client, while something else removes queue files as well.
LeftOvers ==
    (QueueName(1, 0, 0) :> [size |-> PayloadLen, owner |-> LoopProc, dir |-> FALSE]) @@
    (QueueName(2, 0, 0) :> [size |-> PayloadLen, owner |-> LoopProc, dir |-> FALSE])

InitSpool ==
    /\ Initialized
    /\ globalNATSClient = Client
    /\ diskFaulty = FALSE
    /\ spool = LeftOvers

NextSpool ==
    \/ LoopReadDir
    \/ LoopNext
    \/ LoopLock
    \/ LoopPut
    \/ \E n \in DOMAIN LeftOvers : ExternalRemove(n)
    \/ RemoteDown
    \/ RemoteUp
    \/ Tick

SpecSpool == InitSpool /\ [][NextSpool]_vars

\* The retry loop over a spool directory that holds, in the order of the
\* listing: a file junk-1-0-0, a subdirectory msg-1-0-0, a file whose name starts
\* like a queue file and goes on otherwise (msg-1-1-x: the last part, which is
\* not a number, is written -1), and a queue file msg-2-0-0.
JunkFile == <<"junk", 1, 0, 0>>
SubDir == <<"msg", 1, 0, 0>>
OddFile == <<"msg", 1, 1, -1>>
GoodFile == QueueName(2, 0, 0)

Untidy ==
    (JunkFile :> [size |-> PayloadLen, owner |-> LoopProc, dir |-> FALSE]) @@
    (SubDir :> [size |-> 0, owner |-> LoopProc, dir |-> TRUE]) @@
    (OddFile :> [size |-> PayloadLen, owner |-> LoopProc, dir |-> FALSE]) @@
    (GoodFile :> [size |-> PayloadLen, owner |-> LoopProc, dir |-> FALSE])

InitScan ==
    /\ Initialized
    /\ globalNATSClient = Client
    /\ diskFaulty = FALSE
    /\ spool = Untidy

NextScan ==
    \/ LoopReadDir
    \/ LoopNext
    \/ LoopLock
    \/ LoopPut
    \/ RemoteDown
    \/ RemoteUp
    \/ Tick

SpecScan == InitScan /\ [][NextScan]_vars

\* StoreMessageAsync calls on a constructed client, with callers that change
\* their message file as soon as the call has returned.
InitAsync ==
    /\ InitStore
    /\ globalNATSClient = Client

NextAsync ==
    \/ \E w \in Workers, m \in MsgIds : StoreMessageAsyncCall(w, m)
    \/ \E w \in Workers :
         \/ AsyncTemp(w)
         \/ StoreLock(w)
         \/ StorePut(w)
         \/ StoreEnqueue(w)
         \/ StoreCopy(w)
         \/ CallDone(w)
         \/ CallerChangesFile(w)
    \/ RemoteDown
    \/ RemoteUp
    \/ Tick

SpecAsync == InitAsync /\ [][NextAsync]_vars

\* An initialized manager (Init has returned nil) that is shut down while the
\* retry loop, started by init(), has a queue file to deliver.
InitClose ==
    /\ Initialized
    /\ diskFaulty = FALSE
    /\ spool = LeftOver

NextClose ==
    \/ CloseCall
    \/ \E i \in Instances :
         \/ CleanerCleanup(i)
         \/ CleanerTick(i)
         \/ CleanerCtxDone(i)
         \/ WriterFlush(i)
         \/ WriterCtxDone(i)
         \/ CloseStopWriter(i)
         \/ CloseAckWriter(i)
         \/ CloseStopCleaner(i)
         \/ CloseAckCleaner(i)
    \/ CloseNATS
    \/ CloseDB
    \/ CancelCtx
    \/ RemoteDown
    \/ RemoteUp
    \/ LoopReadDir
    \/ LoopNext
    \/ LoopLock
    \/ LoopPut

SpecClose == InitClose /\ [][NextClose]_vars

\* The same with the goroutines of the manager scheduled: a cleanup or a flush
\* that was started ends, a ready case of a select is taken (the ticker fires
\* once in 24 hours, so the cancellation is not passed over for ever), and a
\* Close that waits for an acknowledgment receives it once it is sent.
LifeScheduling ==
    \A i \in Instances :
        /\ WF_vars(CleanerCleanup(i))
        /\ SF_vars(CleanerCtxDone(i))
        /\ WF_vars(WriterFlush(i))
        /\ WF_vars(WriterCtxDone(i))
        /\ WF_vars(CloseAckWriter(i))
        /\ WF_vars(CloseAckCleaner(i))

FairClose == InitClose /\ [][NextClose]_vars /\ LifeScheduling

\* The goroutine that runs Close is scheduled as well: a send on a stop channel
\* completes when the worker comes to its select again and again, and the steps
\* after the acknowledgments are taken.
CloseScheduling ==
    /\ \A i \in Instances :
          /\ SF_vars(CloseStopWriter(i))
          /\ SF_vars(CloseStopCleaner(i))
    /\ WF_vars(CloseNATS)
    /\ WF_vars(CloseDB)

FairShutdown == InitClose /\ [][NextClose]_vars /\ LifeScheduling /\ CloseScheduling

(* ----------------------------- properties ----------------------------- *)

InitPcs == {"init_rm", "init_nats", "init_nats_in"}
ClosePcs == {"close_w_send", "close_w_ack", "close_c_send", "close_c_ack",
             "close_nats", "close_db"}

\* A queue file of message m is in the spool directory.
Spooled(m) == \E n \in DOMAIN spool : ParseOK(n) /\ ParseMessageID(n) = m

\* The bucket holds an object of message m with all its bytes.
Delivered(m) == \E o \in DOMAIN remote : o[2] = m /\ remote[o] = PayloadLen

\* C1 (FairStore): at-least-once delivery. From the moment the service is
\* reachable for good, every message that has a queue file in the spool is
\* eventually in the bucket with all its bytes.
C1_AtLeastOnce == \A m \in MsgIds : (stable /\ Spooled(m)) ~> Delivered(m)

\* The last Close call has returned after closing auth.db.
CloseReturned ==
    /\ opc = "idle"
    /\ closeLog # <<>>
    /\ closeLog[Len(closeLog)] = "close db"

SyncReturned(w) ==
    /\ wpc[w] = "ret"
    /\ wkind[w] = "sync"
    /\ globalNATSClient # Nil

\* C3 as stated (SpecStore): when the store failed, StoreMessageWithQueue returns
\* the error of the store and has created a queue file with the message written
\* to it; when the store succeeded it returns nil and has created no queue file.
C3_OriginalErrorAndEntry ==
    \A w \in Workers : SyncReturned(w) =>
        /\ wput[w] = "ok" => (wres[w] = "nil" /\ wname[w] = None)
        /\ wput[w] # "ok" =>
              /\ wres[w] = wput[w]
              /\ wname[w] # None
              /\ wwritten[w] = PayloadLen

\* C3 (SpecStore): when the store succeeded StoreMessageWithQueue returns nil and
\* has created no queue file. When the store failed it returns the error of the
\* store only if it created a queue file of its own and wrote the whole message to
\* it; if the seek or the exclusive create failed it returns that error and has
\* created no file, and if the copy failed it returns that error and the file it
\* created is short. A file that is still this call's own has the bytes written.
C3_FallbackResult ==
    \A w \in Workers : SyncReturned(w) =>
        /\ wput[w] \in {"ok", "store error"}
        /\ wput[w] = "ok" => (wres[w] = "nil" /\ wname[w] = None /\ wwritten[w] = 0)
        /\ wput[w] = "store error" =>
              \/ /\ wres[w] = "store error"
                 /\ wname[w] # None
                 /\ wwritten[w] = PayloadLen
              \/ /\ wres[w] \in {"seek for queue error", "create queue file error"}
                 /\ wname[w] = None
                 /\ wwritten[w] = 0
              \/ /\ wres[w] = "copy to queue error"
                 /\ wname[w] # None
                 /\ wwritten[w] < PayloadLen
        /\ (wname[w] \in DOMAIN spool /\ spool[wname[w]].owner = w) =>
              spool[wname[w]].size = wwritten[w]

\* A StoreMessageWithQueue call has returned the error of the failed store and
\* its queue file, complete, is in the spool.
C3_QueuedAndReturned ==
    \E w \in Workers :
        /\ SyncReturned(w)
        /\ wput[w] = "store error"
        /\ wres[w] = "store error"
        /\ wname[w] \in DOMAIN spool
        /\ spool[wname[w]] = [size |-> PayloadLen, owner |-> w, dir |-> FALSE]

\* C4 (SpecStore): forward-only gating. The local message of a delivery is
\* deleted at most once, and only after StoreMessageWithQueue returned nil for a
\* store that succeeded; a delivery in forward-only mode ends with the message
\* deleted exactly when its store succeeded.
C4_ForwardOnlyGating ==
    /\ [](\A w \in Workers :
            /\ wdel[w] \in {0, 1}
            /\ wdel[w] = 1 =>
                  /\ wkind[w] = "sync"
                  /\ wput[w] = "ok"
                  /\ wres[w] = "nil"
            /\ wput[w] = "store error" => wdel[w] = 0)
    /\ [][\A w \in Workers :
            (SyncReturned(w) /\ deleteAfterStore /\ wpc'[w] = "idle") =>
                (wdel[w] = 1 <=> wput[w] = "ok")]_vars

\* One delivery has deleted its message after a store that succeeded while another
\* has kept its message after a store that failed.
C4_DeletedAndKept ==
    \E w, v \in Workers :
        /\ SyncReturned(w) /\ wdel[w] = 1 /\ wput[w] = "ok"
        /\ SyncReturned(v) /\ wdel[v] = 0 /\ wput[v] = "store error"
        /\ deleteAfterStore

\* C5 (SpecStore): with no client every store call and every query returns at
\* once with nil (false for IsConnected), no call takes nc.mu or gets as far as a
\* Put or a queue file, and the spool and the bucket stay as they are.
C5_AbsentClientNoOp ==
    /\ [](globalNATSClient = Nil =>
            /\ \A w \in Workers :
                 /\ wpc[w] \in {"idle", "ret"}
                 /\ wres[w] \in {"none", "nil", "false"}
                 /\ wkind[w] = "connected" => wres[w] = "false"
                 /\ wkind[w] \in {"direct", "sync", "async", "config", "close"} =>
                       wres[w] = "nil"
                 /\ wname[w] = None /\ wobj[w] = None /\ wdel[w] = 0
            /\ ~IsConnected
            /\ ~connClosed
            /\ calls = 0)
    /\ [][globalNATSClient = Nil => UNCHANGED <<spool, remote, mu>>]_vars

\* With no client and a queue file in the spool, StoreMessageWithQueue has
\* returned nil to one goroutine and IsConnected false to another.
C5_AbsentCallsReturned ==
    /\ globalNATSClient = Nil
    /\ spool = LeftOver
    /\ \E w, v \in Workers :
         /\ wpc[w] = "ret" /\ wkind[w] = "sync" /\ wres[w] = "nil"
         /\ wpc[v] = "ret" /\ wkind[v] = "connected" /\ wres[v] = "false"

RunningCleaners == {i \in Instances : CleanerRunning(i)}
RunningWriters == {i \in Instances : WriterRunning(i)}

\* C6 (Spec): lifecycle guards. An Init call on an initialized manager returns
\* "already initialized" and changes nothing else; a Close call on a manager that
\* is not initialized returns "not open", sends no stop request and changes
\* nothing else; at no time is there more than one running cleaner, more than one
\* running writer or more than one open handle of auth.db.
C6_LifecycleGuards ==
    /\ [](/\ Cardinality(RunningCleaners) <= 1
          /\ Cardinality(RunningWriters) <= 1
          /\ dbHandles <= 1)
    /\ [][(InitCall /\ AuthDB # Nil) =>
            /\ initResult' = "already initialized"
            /\ UNCHANGED <<AuthDB, dbHandles, removals, opc, initList, closeResult,
                           writerPc, cleanerPc, spawned, histVars, natsVars>>]_vars
    /\ [][(CloseCall /\ AuthDB = Nil) =>
            /\ closeResult' = "not open"
            /\ UNCHANGED <<AuthDB, dbHandles, removals, opc, initList, initResult,
                           writerPc, cleanerPc, spawned, histVars, natsVars>>]_vars

\* Close was refused before the first Init, and a second Init was refused while
\* the one writer and the one cleaner of the first run.
C6_BothRefused ==
    /\ closeResult = "not open"
    /\ initResult = "already initialized"
    /\ AuthDB = "open"
    /\ Cardinality(RunningCleaners) = 1
    /\ Cardinality(RunningWriters) = 1

\* C7 (Spec): when Init has returned nil, removeAccount was tried on every
\* AccountRemove record that was listed, whichever of them failed; the record of
\* an account is still pending exactly when its removal failed; and Init does not
\* return while it works through the list.
C7_RemovalsIndependent ==
    /\ opc \in InitPcs => initResult = "running"
    /\ initResult = "ok" =>
          /\ initTried = initListed
          /\ initFailed \subseteq initListed
          /\ \A a \in initListed : (a \in removals) <=> (a \in initFailed)

\* Init has returned nil after the removal of the first listed account failed and
\* the removal of the second succeeded.
C7_FirstFailedSecondRemoved ==
    /\ initResult = "ok"
    /\ initListed = Accounts
    /\ initFailed = {AccountOrder[1]}
    /\ removals = {AccountOrder[1]}

\* The InitNATS call made by Init has failed to construct the client.
NATSFailed == natsRes[OwnerProc] \in {"connect error", "bucket error"}

\* C8 (Spec): archival is no startup gate. When the construction of the client
\* fails inside Init, Init returns nil with auth.db open and the writer and the
\* cleaner started; from then on there is no client, and every store call made
\* returns nil at once and touches neither the spool nor the bucket.
C8_ArchivalNoGate ==
    /\ [](NATSFailed => (globalNATSClient = Nil /\ natsOnce = "done"))
    /\ [][(opc = "init_nats_in" /\ connAttempts' # connAttempts /\ NATSFailed') =>
            /\ opc' = "idle"
            /\ initResult' = "ok"
            /\ AuthDB' = "open"
            /\ spawned' >= 1
            /\ writerPc'[spawned'] # "none"
            /\ cleanerPc'[spawned'] # "none"]_vars
    /\ [][\A w \in Workers :
            (NATSFailed /\ wpc[w] = "idle" /\ wpc'[w] # "idle") =>
                /\ wpc'[w] = "ret"
                /\ wres'[w] = "nil"
                /\ UNCHANGED <<spool, remote, mu, calls>>]_vars

\* Init has returned nil although the construction failed, auth.db is open with
\* its writer and cleaner running, and a StoreMessageWithQueue call made after it
\* has returned nil.
C8_StartedWithoutClient ==
    /\ NATSFailed
    /\ initResult = "ok"
    /\ AuthDB = "open"
    /\ RunningCleaners # {}
    /\ RunningWriters # {}
    /\ wpc[FirstWorker] = "ret"
    /\ wkind[FirstWorker] = "sync"
    /\ wres[FirstWorker] = "nil"

\* C9 (SpecOnce): whatever the number of callers, newNATSClient is called at most
\* once, by one caller at a time, and once that call is over neither the client
\* nor the number of constructions changes again: a failed construction leaves
\* the client absent for good.
C9_ConstructOnce ==
    /\ [](/\ connAttempts <= 1
          /\ Cardinality({p \in NatsProcs : natsPc[p] = "run"}) <= 1
          /\ natsOnce = "done" => connAttempts = 1
          /\ connAttempts = 0 => globalNATSClient = Nil)
    /\ [][natsOnce = "done" =>
            UNCHANGED <<natsOnce, globalNATSClient, connAttempts>>]_vars

\* The one construction failed, and another caller's InitNATS has returned nil
\* with the client still absent.
C9_FailedOnceForGood ==
    /\ natsOnce = "done"
    /\ connAttempts = 1
    /\ globalNATSClient = Nil
    /\ \E p, q \in NatsProcs :
         /\ p # q
         /\ natsRes[p] \in {"connect error", "bucket error"}
         /\ natsRes[q] = "nil"
         /\ natsPc[q] = "idle"

CloseOrder ==
    <<"stop writer", "ack writer", "stop cleaner", "ack cleaner", "close nats", "close db">>
CloseOrderNoClient == SelectSeq(CloseOrder, LAMBDA e : e # "close nats")
IsPrefix(s, t) == Len(s) <= Len(t) /\ SubSeq(t, 1, Len(s)) = s

\* C10 (Spec): ordered, acknowledged shutdown. The steps of Close are, in this
\* order, the stop of the writer, its acknowledgment, the stop of the cleaner,
\* its acknowledgment, the close of the archival client if there is one, and the
\* close of auth.db; auth.db stays open as long as Close is under way or a writer
\* or cleaner runs, and is never used after it was closed.
C10_OrderedShutdown ==
    /\ IsPrefix(closeLog, CloseOrder) \/ IsPrefix(closeLog, CloseOrderNoClient)
    /\ \A i \in Instances : (CleanerRunning(i) \/ WriterRunning(i)) => AuthDB = "open"
    /\ opc \in ClosePcs => AuthDB = "open"
    /\ ~dbFault

\* A Close that went through all six steps has returned.
C10_FullShutdown ==
    /\ closeLog = CloseOrder
    /\ AuthDB = Nil
    /\ connClosed
    /\ opc = "idle"

\* The goroutines that are inside nc.os.Put: store calls and the retry loop.
InPut == {w \in Workers : wpc[w] = "put"} \cup (IF lpc = "put" THEN {LoopProc} ELSE {})

\* C11 (SpecStore): Put serialization. Whatever the interleaving of StoreMessage
\* and StoreMessageWithQueue callers, detached StoreMessageAsync goroutines and
\* the retry loop, at most one of them is inside nc.os.Put, and it is the holder
\* of nc.mu; nobody holds nc.mu outside a Put.
C11_PutSerialized ==
    /\ Cardinality(InPut) <= 1
    /\ \A p \in InPut : mu = p
    /\ mu # Free => mu \in InPut

\* A store call is inside Put while the retry loop, with a queue file opened,
\* waits for nc.mu.
C11_PutUnderContention ==
    \E w \in Workers :
        /\ wpc[w] = "put"
        /\ mu = w
        /\ lpc = "lock"

C13_CleanerSurvivesPanic ==
    [][\A i \in Instances :
         (cleanerPc[i] = "cleanup" /\ panics' # panics) =>
             /\ panics' = panics + 1
             /\ cleanerPc'[i] = "select"]_vars

\* A call of StoreMessageWithQueue, direct or from the goroutine of
\* StoreMessageAsync, has returned to goroutine w after its Put failed.
FallbackReturned(w) ==
    /\ wpc[w] = "ret"
    /\ wkind[w] \in {"sync", "async"}
    /\ wput[w] = "store error"

\* C14 (SpecStore): on a healthy disk every copy whose Put failed ends up as a
\* spool entry of its own, also when several callers enqueue the same messageID
\* at the same time: a name that is taken makes the enqueue pick another one.
C14_EveryCopyQueued ==
    \A w \in Workers : (FallbackReturned(w) /\ ~diskFaulty) => wname[w] # None

\* C15 (SpecStore): no partly written entry is visible. A queue file that the
\* retry loop has opened, and is about to upload and remove, holds the complete
\* message; and a call whose copy failed has left no file behind.
C15_NoPartialEntryVisible ==
    /\ (lpc \in {"lock", "put"} /\ lcur \in DOMAIN spool) =>
           spool[lcur].size = PayloadLen
    /\ \A w \in Workers :
           (wpc[w] = "ret" /\ wres[w] = "copy to queue error") =>
               wname[w] \notin DOMAIN spool

\* C16 (SpecAsync): snapshot before detach. Whatever the caller does to its file
\* after StoreMessageAsync returned, the goroutine holds all the bytes the file
\* had when the call was made, every object it stored has all of them, and so has
\* the queue file of a call that ended with the message queued.
C16_SnapshotBeforeDetach ==
    /\ \A w \in Workers :
         /\ (wkind[w] = "async" /\ wpc[w] \in {"tmp", "lock", "put", "enqueue", "copy"}) =>
               wsrc[w].data = PayloadLen
         /\ (wkind[w] = "async" /\ wpc[w] = "ret" /\ wres[w] = "store error") =>
               /\ wwritten[w] = PayloadLen
               /\ wname[w] \in DOMAIN spool
               /\ spool[wname[w]].size = PayloadLen
         /\ (wkind[w] = "async" /\ wpc[w] = "ret" /\ wput[w] = "ok") =>
               \E o \in DOMAIN remote : o[2] = wmsg[w] /\ remote[o] = PayloadLen
    /\ \A o \in DOMAIN remote : remote[o] = PayloadLen

\* Two callers have emptied their files after StoreMessageAsync returned; the
\* goroutine of one has stored the whole message and the goroutine of the other
\* has queued the whole message.
C16_StoredAfterCallerChange ==
    \E w, v \in Workers :
        /\ wkind[w] = "async" /\ wpc[w] = "ret" /\ wput[w] = "ok"
        /\ wsrc[w].file = 0
        /\ \E o \in DOMAIN remote : o[2] = wmsg[w] /\ remote[o] = PayloadLen
        /\ wkind[v] = "async" /\ wpc[v] = "ret" /\ wres[v] = "store error"
        /\ wsrc[v].file = 0
        /\ wname[v] \in DOMAIN spool /\ spool[wname[v]].size = PayloadLen

\* C17 (SpecSpool): idempotent removal. When the loop has stored a file that
\* somebody else has removed in the meantime, its os.Remove deletes nothing, and
\* the pass goes on with the next file of the listing. (The loop drops the result
\* of os.Remove, so no error is reported anywhere.)
C17_IdempotentRemoval ==
    [][(lpc = "put" /\ lcur \notin DOMAIN spool /\ lpc' # "put") =>
          /\ spool' = spool
          /\ lfiles' = Tail(lfiles)
          /\ lpc' = AfterFile(Tail(lfiles))]_vars

\* A queue file was removed by somebody else while the loop held it; the loop has
\* stored it (so it went on to os.Remove), the other queue file is still there,
\* and the pass is about to handle it.
C17_RemovedTwicePassGoesOn ==
    \E n \in DOMAIN unlinked :
        /\ \E o \in DOMAIN remote : o[2] = ParseMessageID(n)
        /\ lpc = "scan"
        /\ Head(lfiles) \in DOMAIN spool
        /\ Head(lfiles) # n

\* C18 (SpecStore): spool invariant. The queue file of a call that has queued
\* its message (the Put failed, the file was created and the copy completed) is
\* in the spool directory for as long as the message is not in the bucket with
\* all its bytes: only a confirmed store of the message retires the entry.
C18_EntryUntilConfirmed ==
    \A w \in Workers :
        (FallbackReturned(w) /\ wres[w] = "store error" /\ wname[w] # None) =>
            (wname[w] \in DOMAIN spool \/ Delivered(wmsg[w]))

\* C19 (SpecStore): unique object names. No successful Put, by a store call or
\* by the retry loop, writes an object name that is already in the bucket, so no
\* stored object is overwritten.
C19_UniqueObjectNames ==
    [][/\ \A w \in Workers :
            (wpc[w] = "put" /\ wput'[w] = "ok") => wobj[w] \notin DOMAIN remote
       /\ (lpc = "put" /\ lcur \in DOMAIN spool /\ lcur \notin DOMAIN spool') =>
            lobj \notin DOMAIN remote]_vars

\* The names of a listing.
Names(seq) == {seq[k] : k \in 1..Len(seq)}

\* The loop is at the client check of a file whose name parses.
AtClientCheck == lpc = "scan" /\ ParseOK(Head(lfiles))

\* C20 as stated (SpecStore): when the retry loop finds the client absent or not
\* connected, the pass it abandons has left the set of spool entries as it was:
\* every file of the listing of this pass is still in the spool directory.
C20_PassLeavesSpoolUnchanged ==
    [][(AtClientCheck /\ ~IsConnected /\ lpc' = "sleep") =>
          Names(files) \subseteq DOMAIN spool']_vars

\* C20 (SpecStore): retry pass with no live client. When the client is absent or
\* not connected at the check, the loop ends the pass there: the rest of the
\* listing is dropped and the loop sleeps, without a lock, an open file, a Put or
\* a removal; the spool and the bucket are as they were at the check. While the
\* loop sleeps it holds no file and no lock. The check is made again for every
\* file that parses, in the same pass and in the next one: a file that is in the
\* directory on a healthy disk is taken up when the client is live.
C20_AbandonAtFailedCheck ==
    /\ [][(AtClientCheck /\ ~IsConnected /\ lpc' # lpc) =>
             /\ lpc' = "sleep"
             /\ lfiles' = <<>>
             /\ UNCHANGED <<spool, remote, unlinked, mu, lcur, lobj>>]_vars
    /\ [][(AtClientCheck /\ IsConnected /\ ~diskFaulty
             /\ Head(lfiles) \in DOMAIN spool /\ lpc' # lpc) =>
             /\ lpc' = "lock"
             /\ lcur' = Head(lfiles)]_vars
    /\ [](lpc = "sleep" => lfiles = <<>> /\ lcur = None /\ mu # LoopProc)

\* The loop is at the check of the second file of a pass with the client not
\* connected, after it has stored and removed the first file in the same pass.
C20_AbandonedAfterRemoval ==
    /\ AtClientCheck
    /\ ~IsConnected
    /\ Head(lfiles) \in DOMAIN spool
    /\ \E n \in Names(files) : n \notin DOMAIN spool

PassEnds == lpc \in {"scan", "put"} /\ lpc' = "sleep"

\* C22 (SpecStore): one-pass drain. On a healthy disk, at the end of a pass in
\* which the client was live at every check and every Put succeeded, every queue
\* file of the listing is removed and the bucket holds an object of its message
\* with all the bytes of the message.
C22_OnePassDrain ==
    [][(PassEnds /\ ~lfail' /\ ~diskFaulty) =>
          \A n \in Names(files) :
              ParseOK(n) =>
                 /\ n \notin DOMAIN spool'
                 /\ \E o \in DOMAIN remote' :
                        o[2] = ParseMessageID(n) /\ remote'[o] = PayloadLen]_vars

\* The file name has the form msg-{messageID}-{enqueueUnixNanos}-{randomSalt}.
MatchesPattern(n) ==
    /\ Len(n) = 4
    /\ n[1] = "msg"
    /\ n[2] \in Int
    /\ n[3] \in Nat
    /\ n[4] \in Nat

\* What the scanner passes over: subdirectories, and names that Sscanf rejects.
Ignored(n) == (n \in DOMAIN spool /\ spool[n].dir) \/ ~ParseOK(n)

\* C23 as stated (SpecScan): no subdirectory and no file whose name does not
\* match msg-{messageID}-{enqueueUnixNanos}-{randomSalt} is ever opened for
\* upload or removed.
C23_OnlyPatternNamesHandled ==
    /\ [](lcur # None => (MatchesPattern(lcur) /\ ~Ignored(lcur)))
    /\ [][\A n \in DOMAIN spool :
            (Ignored(n) \/ ~MatchesPattern(n)) => n \in DOMAIN spool']_vars

\* C23 (SpecScan): scanner tolerance. A subdirectory, and a file whose name does
\* not start with msg-{messageID}-, is never opened for upload, never changed
\* and never removed; the scanner passes over it and goes on with the next entry
\* of the listing, so that later queue files are handled in the same pass.
C23_ScannerTolerance ==
    /\ [](lcur # None => ~Ignored(lcur))
    /\ [][\A n \in DOMAIN spool :
            Ignored(n) => (n \in DOMAIN spool' /\ spool'[n] = spool[n])]_vars
    /\ [][(lpc = "scan" /\ Ignored(Head(lfiles)) /\ lpc' # lpc) =>
            /\ lfiles' = Tail(lfiles)
            /\ lpc' = AfterFile(Tail(lfiles))
            /\ UNCHANGED <<spool, remote, mu, lcur, lobj>>]_vars

\* After a pass the junk file and the subdirectory are where they were, the
\* queue file behind them is stored and removed, and so is the file whose name
\* only starts like a queue file.
C23_PassedOverAndDrained ==
    /\ lpc = "sleep"
    /\ DOMAIN spool = {JunkFile, SubDir}
    /\ ObjectName(2, 0) \in DOMAIN remote
    /\ \E o \in DOMAIN remote : o[2] = ParseMessageID(OddFile)

\* C24 (SpecOnce): InitNATS without a configuration. The call returns nil at once
\* and changes neither the Once, nor the client, nor the number of connection
\* attempts; a caller whose last call had no configuration is never inside
\* natsOnce.Do. So the Once is still new for the first call with a configuration,
\* which runs the construction: as long as the Once is new no connection was
\* attempted and the client is absent.
C24_NilConfigNoEffect ==
    /\ [][\A p \in NatsProcs :
            (natsCfg'[p] = "nil" /\ natsCfg[p] # "nil") =>
               /\ natsRes'[p] = "nil"
               /\ UNCHANGED <<natsOnce, natsPc, globalNATSClient, connClosed,
                              connAttempts>>]_vars
    /\ [](\A p \in NatsProcs : natsCfg[p] = "nil" => natsPc[p] = "idle")
    /\ [](natsOnce = "new" => (connAttempts = 0 /\ globalNATSClient = Nil))
    /\ [][\A p \in NatsProcs :
            (natsOnce = "new" /\ natsCfg'[p] = "cfg" /\ natsPc'[p] # natsPc[p]) =>
               (natsOnce' = "running" /\ natsPc'[p] = "run")]_vars

\* One caller's InitNATS without a configuration has returned nil, and the call
\* of another caller with a configuration has constructed the client in the one
\* connection attempt.
C24_NilThenConstructed ==
    \E p, q \in NatsProcs :
        /\ natsCfg[p] = "nil" /\ natsRes[p] = "nil"
        /\ natsCfg[q] = "cfg" /\ natsRes[q] = "nil" /\ natsPc[q] = "idle"
        /\ natsOnce = "done"
        /\ connAttempts = 1
        /\ globalNATSClient = Client

\* C25 (FairShutdown): Close always terminates. A Close that has come to its
\* stop request to the cleaner gets past it and returns in the end, whatever
\* the cleaner did before: also after the process context was cancelled and
\* after a panic in the cleanup.
C25_CloseTerminates == (opc = "close_c_send") ~> (closeResult \in {"ok", "close error"})

\* C26 (Spec): a failed Init leaves the manager uninitialized. While the result
\* of the last Init is an error of bstore.Open or of the listing of the account
\* removals, AuthDB is nil and no writer and no cleaner runs.
C26_FailedInitUninitialized ==
    initResult \in {"open error", "list error"} =>
        /\ AuthDB = Nil
        /\ \A i \in Instances : ~CleanerRunning(i) /\ ~WriterRunning(i)

\* C27 (Spec): re-initialization keeps archival usable. Whenever Init has
\* returned nil and the manager is initialized, a client that exists has a
\* connection that was not closed.
C27_ClientLiveWhenInitialized ==
    (AuthDB # Nil /\ opc = "idle" /\ initResult = "ok" /\ globalNATSClient # Nil) =>
        ~connClosed

\* The sequence s is what is left of the sequence t after some of its first
\* elements.
IsSuffix(s, t) ==
    /\ Len(s) <= Len(t)
    /\ \A k \in 1..Len(s) : s[k] = t[Len(t) - Len(s) + k]

\* C28 (SpecStore): no head-of-line blocking. The pass goes through the listing
\* in its order, one file at a time. With a live client at the check, a file
\* that cannot be opened is passed over and the pass goes on with the next file;
\* a Put, failed or not, is followed by the next file of the listing; and a
\* file that is there on a healthy disk is taken up.
C28_NoHeadOfLineBlocking ==
    /\ [](lpc \in {"scan", "lock", "put"} =>
            /\ lfiles # <<>>
            /\ IsSuffix(lfiles, files)
            /\ (lpc \in {"lock", "put"} => lcur = Head(lfiles)))
    /\ [][(AtClientCheck /\ IsConnected /\ lpc' # lpc) =>
            \/ lpc' = "lock" /\ lcur' = Head(lfiles) /\ lfiles' = lfiles
            \/ /\ (diskFaulty \/ Head(lfiles) \notin DOMAIN spool)
               /\ lfiles' = Tail(lfiles)
               /\ lpc' = AfterFile(Tail(lfiles))]_vars
    /\ [][(lpc = "put" /\ lpc' # lpc) =>
            /\ lfiles' = Tail(lfiles)
            /\ lpc' = AfterFile(Tail(lfiles))]_vars

\* In a pass over two queue files the Put of the first has failed, the first
\* file is still in the spool, and the loop is inside the Put of the second.
C28_SecondAfterFailedFirst ==
    /\ Len(files) >= 2
    /\ lpc = "put"
    /\ lcur = files[2]
    /\ lfail
    /\ files[1] \in DOMAIN spool
====
